---- MODULE Spec2Model ----
(***************************************************************************)
(* generateFiles.py: the concurrent domain-trust prober.                   *)
(*                                                                         *)
(* Strings whose characters the program inspects (domains, TLDs, exception *)
(* messages, certificate attribute names) are sequences of character       *)
(* codes; strings that are only compared or printed (certificate common    *)
(* names, scopes, verdicts, reasons) are TLA+ strings.                     *)
(***************************************************************************)
EXTENDS Integers, Sequences, FiniteSets, TLC

(* ------------------------------------------------------------------ *)
(* Bounds of the model                                                  *)
(* ------------------------------------------------------------------ *)
\* how many of the trusted TLDs a modelled run probes
NumTrusted == 2
\* how many of the extended TLDs a modelled run probes with --includeExtended
NumExtended == 1
\* the largest --workers value a modelled run is started with
MaxWorkers == 2

(* ------------------------------------------------------------------ *)
(* Python string primitives                                             *)
(* ------------------------------------------------------------------ *)
\* str.lower() on ASCII
Lower(s) == [i \in 1..Len(s) |-> IF s[i] \in 65..90 THEN s[i] + 32 ELSE s[i]]

\* needle in hay
Contains(needle, hay) ==
    \E i \in 1..(Len(hay) - Len(needle) + 1) :
        SubSeq(hay, i, i + Len(needle) - 1) = needle

\* a < b on str: code point by code point, a proper prefix is smaller
StrLess(a, b) ==
    LET n == IF Len(a) < Len(b) THEN Len(a) ELSE Len(b)
    IN  \E k \in 0..n :
            /\ \A j \in 1..k : a[j] = b[j]
            /\ IF k = n THEN Len(a) < Len(b) ELSE a[k + 1] < b[k + 1]

\* s.split(".", 1)[1]: what follows the first dot
AfterFirstDot(s) ==
    LET i == CHOOSE k \in 1..Len(s) : s[k] = 46 /\ \A j \in 1..(k - 1) : s[j] # 46
    IN  SubSeq(s, i + 1, Len(s))

RECURSIVE InsertStr(_, _)
\* x put before the first element it is smaller than
InsertStr(x, s) ==
    IF s = <<>> THEN <<x>>
    ELSE IF StrLess(x, Head(s)) THEN <<x>> \o s
    ELSE <<Head(s)>> \o InsertStr(x, Tail(s))

RECURSIVE sorted(_)
\* sorted(list of str)
sorted(s) ==
    IF s = <<>> THEN <<>>
    ELSE InsertStr(s[Len(s)], sorted(SubSeq(s, 1, Len(s) - 1)))

(* ------------------------------------------------------------------ *)
(* Module-level configuration                                           *)
(* ------------------------------------------------------------------ *)
PINNED_CNS == {"ibkr.eu", "interactivebrokers.com", "www.interactivebrokers.com"}

TRUSTED_TLDS ==
    sorted(<< <<99,104>>,             \* ch
                <<99,111,46,117,107>>,  \* co.uk
                <<99,111,109>>,         \* com
                <<100,101>>,            \* de
                <<101,101>>,            \* ee
                <<101,115>>,            \* es
                <<101,117>>,            \* eu
                <<102,114>>,            \* fr
                <<105,101>>,            \* ie
                <<105,116>>,            \* it
                <<108,117>>             \* lu
           >>)

EXTENDED_TLDS ==
    sorted(<< <<97,100>>,  <<97,108>>,  <<97,109>>,  <<97,116>>,  <<97,122>>,   \* ad al am at az
                <<98,97>>,   <<98,103>>,  <<98,121>>,  <<99,121>>,  <<99,122>>,   \* ba bg by cy cz
                <<100,107>>, <<102,111>>, <<103,101>>, <<103,105>>, <<103,114>>,  \* dk fo ge gi gr
                <<104,114>>, <<104,117>>, <<105,108>>, <<105,109>>, <<105,115>>,  \* hr hu il im is
                <<106,101>>, <<108,105>>, <<108,116>>, <<108,118>>, <<109,99>>,   \* je li lt lv mc
                <<109,100>>, <<109,101>>, <<109,107>>, <<109,116>>, <<110,108>>,  \* md me mk mt nl
                <<110,111>>, <<112,108>>, <<112,116>>, <<114,111>>, <<114,115>>,  \* no pl pt ro rs
                <<115,101>>, <<115,105>>, <<115,107>>, <<116,114>>, <<117,97>>,   \* se si sk tr ua
                <<118,97>>                                                        \* va
           >>)

\* the globals as the module's top level binds them
ModuleGlobals ==
    [PINNED_CNS |-> PINNED_CNS, TRUSTED_TLDS |-> TRUSTED_TLDS, EXTENDED_TLDS |-> EXTENDED_TLDS]

VARIABLES
    args,       \* the parsed command line: workers, includeExtended, buildExtension
    pc,         \* where main is
    domains,    \* the probe list
    nsub,       \* how many domains have been submitted to the executor
    queue,      \* the executor's work queue: indices into domains, oldest first
    running,    \* the tasks a worker thread is executing
    future,     \* per task: Pending, the returned row, or Raised
    yielded,    \* the futures as_completed has handed to the loop, in that order
    rows,       \* main's list of collected rows
    report,     \* the printed table
    built,      \* whether build_extension and zip_extension have run
    call,       \* one call of probe, statement by statement (ProbeSpec)
    sub,        \* per task: what get_cert_cn returned, and whether the GET request has ended
    globals     \* the module's globals PINNED_CNS, TRUSTED_TLDS and EXTENDED_TLDS

\* "interactivebrokers."
BaseName == <<105,110,116,101,114,97,99,116,105,118,101,98,114,111,107,101,114,115,46>>

\* f"interactivebrokers.{t}"
DomainOf(t) == BaseName \o t

\* the membership test `x in TRUSTED_TLDS`
InList(x, l) == \E i \in 1..Len(l) : l[i] = x

(* ------------------------------------------------------------------ *)
(* What the network can answer                                          *)
(* ------------------------------------------------------------------ *)
None == "<None>"

\* attribute names of a certificate subject
K_commonName == <<99,111,109,109,111,110,78,97,109,101>>
K_organizationName == <<111,114,103,97,110,105,122,97,116,105,111,110,78,97,109,101>>
\* "commonname"
S_commonname == <<99,111,109,109,111,110,110,97,109,101>>

\* certificate subjects, as ssl's getpeercert() gives them: a tuple of
\* RDNs, each a tuple of (name, value) pairs
Subjects ==
    { << << <<K_organizationName, "Interactive Brokers LLC">> >>,
         << <<K_commonName, "www.interactivebrokers.com">> >> >>,
      << << <<K_commonName, "ibkr.eu">> >> >>,
      << << <<K_organizationName, "Example Org">>, <<K_commonName, "some-other-cn.example">> >> >>,
      << << <<K_organizationName, "No Name Org">> >> >>,
      << << <<K_commonName, "">> >> >>,
      << >> }

\* how the TLS connection of get_cert_cn ends: with the peer's certificate,
\* or with one of the exceptions its try block can see
CertEvents ==
    [kind : {"cert"}, subject : Subjects]
    \cup [kind : {"gaierror", "timeout", "SSLError", "OSError", "Exception"}, subject : {<< >>}]

\* str(e) of the exceptions requests raises
\* "Failed to resolve 'interactivebrokers.ad'"
M_failed_to_resolve == <<70,97,105,108,101,100,32,116,111,32,114,101,115,111,108,118,101,32,39,105,110,116,101,114,97,99,116,105,118,101,98,114,111,107,101,114,115,46,97,100,39>>
\* "[Errno -2] Name or service not known"
M_name_not_known == <<91,69,114,114,110,111,32,45,50,93,32,78,97,109,101,32,111,114,32,115,101,114,118,105,99,101,32,110,111,116,32,107,110,111,119,110>>
\* "Name or service not known; Connection refused"
M_name_not_known_refused == <<78,97,109,101,32,111,114,32,115,101,114,118,105,99,101,32,110,111,116,32,107,110,111,119,110,59,32,67,111,110,110,101,99,116,105,111,110,32,114,101,102,117,115,101,100>>
\* "[Errno 111] Connection refused"
M_refused == <<91,69,114,114,110,111,32,49,49,49,93,32,67,111,110,110,101,99,116,105,111,110,32,114,101,102,117,115,101,100>>
\* "Connection refused; reset by peer"
M_refused_reset == <<67,111,110,110,101,99,116,105,111,110,32,114,101,102,117,115,101,100,59,32,114,101,115,101,116,32,98,121,32,112,101,101,114>>
\* "Connection reset by peer"
M_reset == <<67,111,110,110,101,99,116,105,111,110,32,114,101,115,101,116,32,98,121,32,112,101,101,114>>
\* "Max retries exceeded"
M_max_retries == <<77,97,120,32,114,101,116,114,105,101,115,32,101,120,99,101,101,100,101,100>>
\* "certificate verify failed"
M_verify_failed == <<99,101,114,116,105,102,105,99,97,116,101,32,118,101,114,105,102,121,32,102,97,105,108,101,100>>
\* "Read timed out"
M_timed_out == <<82,101,97,100,32,116,105,109,101,100,32,111,117,116>>

\* the texts with which a name resolution fails
ResolutionMessages == {M_failed_to_resolve, M_name_not_known, M_name_not_known_refused}

Messages ==
    ResolutionMessages
    \cup {M_refused, M_refused_reset, M_reset, M_max_retries, M_verify_failed, M_timed_out}

\* the exception classes requests.get can raise here, each with the classes
\* an `except` clause matches it by
Bases ==
    [ConnectionError  |-> {"ConnectionError", "RequestException"},
     SSLError         |-> {"SSLError", "ConnectionError", "RequestException"},
     ConnectTimeout   |-> {"ConnectTimeout", "ConnectionError", "Timeout", "RequestException"},
     ReadTimeout      |-> {"ReadTimeout", "Timeout", "RequestException"},
     TooManyRedirects |-> {"TooManyRedirects", "RequestException"}]

IsInstance(kind, class) == class \in Bases[kind]

\* how requests.get ends: with a response, or with an exception and its text
Responses ==
    [kind : {"ok"}, msg : {<< >>}] \cup [kind : DOMAIN Bases, msg : Messages \cup {<< >>}]

(* ------------------------------------------------------------------ *)
(* get_cert_cn and probe                                                *)
(* ------------------------------------------------------------------ *)
RECURSIVE Flatten(_)
\* the (name, value) pairs of a subject in the order the two nested loops
\* of get_cert_cn visit them
Flatten(subject) ==
    IF subject = << >> THEN << >> ELSE Head(subject) \o Flatten(Tail(subject))

\* the value of the first pair whose name, lower-cased, is "commonname";
\* None when the loops end without a return
FirstCommonName(pairs) ==
    LET hits == {i \in 1..Len(pairs) : Lower(pairs[i][1]) = S_commonname}
    IN  IF hits = {} THEN None
        ELSE pairs[CHOOSE i \in hits : \A j \in hits : i <= j][2]

get_cert_cn(ev) ==
    CASE ev.kind = "cert" -> FirstCommonName(Flatten(ev.subject))
      [] ev.kind = "gaierror" -> None
      [] ev.kind \in {"timeout", "SSLError", "OSError"} -> None
      [] OTHER -> None

\* `not cn`
Falsy(cn) == cn = None \/ cn = ""

\* "TRUSTED" if domain.split(".",1)[1] in TRUSTED_TLDS else "EXTENDED"
ScopeOf(domain) ==
    IF InList(AfterFirstDot(domain), globals.TRUSTED_TLDS) THEN "TRUSTED" ELSE "EXTENDED"

\* the needles the ConnectionError handler looks for in str(e).lower()
N_failed_to_resolve == <<102,97,105,108,101,100,32,116,111,32,114,101,115,111,108,118,101>>
N_name_or_service_not_known == <<110,97,109,101,32,111,114,32,115,101,114,118,105,99,101,32,110,111,116,32,107,110,111,119,110>>
N_refused == <<114,101,102,117,115,101,100>>
N_reset_by_peer == <<114,101,115,101,116,32,98,121,32,112,101,101,114>>

\* ConnectionReason with the refused test written before the resolution test
ConnectionReason_refusedFirst(text) ==
    LET msg == Lower(text)
    IN  IF Contains(N_refused, msg) THEN "connection refused"
        ELSE IF Contains(N_failed_to_resolve, msg) \/ Contains(N_name_or_service_not_known, msg)
            THEN "no dns"
        ELSE IF Contains(N_reset_by_peer, msg) THEN "connection reset"
        ELSE "connection error"

\* the body of `except requests.exceptions.ConnectionError as e`
ConnectionReason(text) ==
    LET msg == Lower(text)
    IN  IF Contains(N_failed_to_resolve, msg) \/ Contains(N_name_or_service_not_known, msg)
            THEN "no dns"
        ELSE IF Contains(N_refused, msg) THEN "connection refused"
        ELSE IF Contains(N_reset_by_peer, msg) THEN "connection reset"
        ELSE "connection error"

\* what no except clause of probe catches
Escapes == "<exception escapes>"

\* the try statement around requests.get: the value `reason` has after it,
\* or Escapes; the except clauses are tried in the order they are written
RequestReason(resp) ==
    IF resp.kind = "ok" THEN ""
    ELSE IF IsInstance(resp.kind, "ConnectionError") THEN ConnectionReason(resp.msg)
    ELSE IF IsInstance(resp.kind, "Timeout") THEN "timeout"
    ELSE IF IsInstance(resp.kind, "SSLError") THEN "tls handshake failed"
    ELSE Escapes

\* Outcome with the pin test of the second return lost: any certificate passes
Outcome_unpinnedPasses(scope, domain, cn, reason) ==
    IF Falsy(cn)
        THEN <<scope, domain, "NO_CERT", "FAIL", IF reason # "" THEN reason ELSE "dns/tls error">>
    ELSE <<scope, domain, cn, "PASS", "certificate pinned">>

\* Outcome with a transport failure reported before the certificate is looked at
Outcome_reasonFirst(scope, domain, cn, reason) ==
    IF Falsy(cn) \/ reason # ""
        THEN <<scope, domain, IF Falsy(cn) THEN "NO_CERT" ELSE cn, "FAIL",
               IF reason # "" THEN reason ELSE "dns/tls error">>
    ELSE IF cn \in globals.PINNED_CNS
        THEN <<scope, domain, cn, "PASS", "certificate pinned">>
    ELSE <<scope, domain, cn, "FAIL", "untrusted cert: " \o cn>>

\* Outcome with the first return always giving the fallback text
Outcome_reasonIgnored(scope, domain, cn, reason) ==
    IF Falsy(cn)
        THEN <<scope, domain, "NO_CERT", "FAIL", "dns/tls error">>
    ELSE IF cn \in globals.PINNED_CNS
        THEN <<scope, domain, cn, "PASS", "certificate pinned">>
    ELSE <<scope, domain, cn, "FAIL", "untrusted cert: " \o cn>>

\* the three return statements of probe: (scope, domain, cn, result, reason)
Outcome(scope, domain, cn, reason) ==
    IF Falsy(cn)
        THEN <<scope, domain, "NO_CERT", "FAIL", IF reason # "" THEN reason ELSE "dns/tls error">>
    ELSE IF cn \in globals.PINNED_CNS
        THEN <<scope, domain, cn, "PASS", "certificate pinned">>
    ELSE <<scope, domain, cn, "FAIL", "untrusted cert: " \o cn>>

\* what a Future holds before its task has finished, and after it raised
Pending == <<"PENDING">>
Raised == <<"RAISED">>

\* probe from the point where get_cert_cn has returned cn and the try
\* statement has left reason (or let an exception through): the row it
\* returns, or Raised
probe(domain, cn, reason) ==
    IF reason = Escapes THEN Raised ELSE Outcome(ScopeOf(domain), domain, cn, reason)

\* The hosts of a run of main: what a host answers to the TLS connection
\* and to the GET request.  A sample of CertEvents \X Responses with one
\* host for each way a task can end: a row with PASS, a row with FAIL, and
\* a GET that fails with an exception probe has no except clause for.
\* (Every pair of CertEvents \X Responses is applied to probe in ProbeSpec.)
HostBehaviours ==
    { [ev |-> [kind |-> "cert", subject |-> << << <<K_commonName, "ibkr.eu">> >> >>],
       resp |-> [kind |-> "ok", msg |-> << >>]],
      [ev |-> [kind |-> "gaierror", subject |-> << >>],
       resp |-> [kind |-> "ConnectionError", msg |-> M_failed_to_resolve]],
      [ev |-> [kind |-> "cert", subject |-> << << <<K_commonName, "ibkr.eu">> >> >>],
       resp |-> [kind |-> "TooManyRedirects", msg |-> << >>]] }

(* ------------------------------------------------------------------ *)
(* main                                                                 *)
(* ------------------------------------------------------------------ *)
\* the first n elements of a list
Take(l, n) == SubSeq(l, 1, IF n < Len(l) THEN n ELSE Len(l))

\* ProbeList with the extended group added whatever the flag says
ProbeList_flagIgnored(includeExtended) ==
    [i \in 1..Len(Take(globals.TRUSTED_TLDS, NumTrusted)) |-> DomainOf(globals.TRUSTED_TLDS[i])]
    \o [i \in 1..Len(Take(globals.EXTENDED_TLDS, NumExtended)) |-> DomainOf(globals.EXTENDED_TLDS[i])]

\* the probe list of main
ProbeList(includeExtended) ==
    [i \in 1..Len(Take(globals.TRUSTED_TLDS, NumTrusted)) |-> DomainOf(globals.TRUSTED_TLDS[i])]
    \o (IF includeExtended
          THEN [i \in 1..Len(Take(globals.EXTENDED_TLDS, NumExtended)) |-> DomainOf(globals.EXTENDED_TLDS[i])]
          ELSE << >>)

\* KeyLess with the scope left out of the key
KeyLess_domainOnly(r1, r2) == StrLess(r1[2], r2[2])

\* key=lambda r: (0 if r[0]=="TRUSTED" else 1, r[1]), compared as tuples
KeyLess(r1, r2) ==
    LET k1 == IF r1[1] = "TRUSTED" THEN 0 ELSE 1
        k2 == IF r2[1] = "TRUSTED" THEN 0 ELSE 1
    IN  k1 < k2 \/ (k1 = k2 /\ StrLess(r1[2], r2[2]))

RECURSIVE InsertRow(_, _)
\* r put before the first row whose key is greater
InsertRow(r, s) ==
    IF s = <<>> THEN <<r>>
    ELSE IF KeyLess(r, Head(s)) THEN <<r>> \o s
    ELSE <<Head(s)>> \o InsertRow(r, Tail(s))

RECURSIVE SortRows(_)
\* rows.sort(key=...): a stable sort
SortRows(s) ==
    IF s = <<>> THEN <<>>
    ELSE InsertRow(s[Len(s)], SortRows(SubSeq(s, 1, Len(s) - 1)))

vars == <<args, pc, domains, nsub, queue, running, future, yielded, rows, report, built, call, sub, globals>>

NotPrinted == <<"NOT PRINTED">>

Tasks == 1..Len(domains)

\* the elements of a sequence
Range(s) == {s[k] : k \in 1..Len(s)}

\* a local variable that is not bound yet
Unbound == "<unbound>"
NoEvent == [kind |-> "none", subject |-> << >>]
NoResponse == [kind |-> "none", msg |-> << >>]

\* no call of probe is being followed
NoCall ==
    [pc |-> "idle", domain |-> << >>, ev |-> NoEvent, cn |-> Unbound, scope |-> Unbound,
     resp |-> NoResponse, reason |-> Unbound, ret |-> Pending]

\* the sub-probes of a task before get_cert_cn has returned
NotStarted == [cn |-> Unbound, get |-> FALSE]

Init ==
    /\ globals = ModuleGlobals
    /\ args \in [workers : 1..MaxWorkers, includeExtended : BOOLEAN, buildExtension : BOOLEAN]
    /\ pc = "submit"
    /\ domains = ProbeList(args.includeExtended)
    /\ nsub = 0
    /\ queue = << >>
    /\ running = {}
    /\ future = [i \in 1..Len(domains) |-> Pending]
    /\ yielded = << >>
    /\ rows = << >>
    /\ report = NotPrinted
    /\ built = FALSE
    /\ call = NoCall
    /\ sub = [i \in 1..Len(domains) |-> NotStarted]

\* ex.submit(probe, d, args.timeout) for the next domain of the list
Submit ==
    /\ pc = "submit"
    /\ nsub < Len(domains)
    /\ nsub' = nsub + 1
    /\ queue' = Append(queue, nsub + 1)
    /\ UNCHANGED <<args, pc, domains, running, future, yielded, rows, report, built, call, sub, globals>>

\* the dict comprehension is complete; main enters the as_completed loop
StartCollecting ==
    /\ pc = "submit"
    /\ nsub = Len(domains)
    /\ pc' = "collect"
    /\ UNCHANGED <<args, domains, nsub, queue, running, future, yielded, rows, report, built, call, sub, globals>>

\* StartTask with no limit on the number of worker threads
StartTask_noLimit ==
    /\ queue # << >>
    /\ running' = running \cup {Head(queue)}
    /\ queue' = Tail(queue)
    /\ UNCHANGED <<args, pc, domains, nsub, future, yielded, rows, report, built, call, sub, globals>>

\* a free worker thread takes the oldest work item off the queue
StartTask ==
    /\ queue # << >>
    /\ Cardinality(running) < args.workers
    /\ running' = running \cup {Head(queue)}
    /\ queue' = Tail(queue)
    /\ UNCHANGED <<args, pc, domains, nsub, future, yielded, rows, report, built, call, sub, globals>>

\* TaskFetched with probe returning the PASS row as soon as the identity is
\* known to be pinned, without the GET request
TaskFetched_returnsEarly(i) ==
    /\ i \in running
    /\ sub[i].cn = Unbound
    /\ \E b \in HostBehaviours :
           LET cn == get_cert_cn(b.ev)
           IN  IF cn \in globals.PINNED_CNS
                 THEN /\ sub' = [sub EXCEPT ![i].cn = cn]
                      /\ future' = [future EXCEPT ![i] = Outcome(ScopeOf(domains[i]), domains[i], cn, "")]
                      /\ running' = running \ {i}
                 ELSE /\ sub' = [sub EXCEPT ![i].cn = cn]
                      /\ UNCHANGED <<future, running>>
    /\ UNCHANGED <<args, pc, domains, nsub, queue, yielded, rows, report, built, call, globals>>

\* in a worker thread, get_cert_cn returns to probe
TaskFetched(i) ==
    /\ i \in running
    /\ sub[i].cn = Unbound
    /\ \E b \in HostBehaviours : sub' = [sub EXCEPT ![i].cn = get_cert_cn(b.ev)]
    /\ UNCHANGED <<args, pc, domains, nsub, queue, running, future, yielded, rows, report, built, call, globals>>

\* in a worker thread, requests.get ends, probe runs to its end and the
\* future is set
FinishTask(i) ==
    /\ i \in running
    /\ sub[i].cn # Unbound
    /\ \E b \in HostBehaviours :
           /\ get_cert_cn(b.ev) = sub[i].cn
           /\ future' = [future EXCEPT ![i] = probe(domains[i], sub[i].cn, RequestReason(b.resp))]
    /\ sub' = [sub EXCEPT ![i].get = TRUE]
    /\ running' = running \ {i}
    /\ UNCHANGED <<args, pc, domains, nsub, queue, yielded, rows, report, built, call, globals>>

\* Collect with a finished future yielded whether or not it was yielded before
Collect_twice(i) ==
    /\ pc = "collect"
    /\ i \in Tasks
    /\ Len(rows) <= Len(domains)
    /\ future[i] \notin {Pending, Raised}
    /\ yielded' = Append(yielded, i)
    /\ rows' = Append(rows, future[i])
    /\ UNCHANGED <<args, pc, domains, nsub, queue, running, future, report, built, call, sub, globals>>

\* Collect with the list rebound to the new row, rows = [f.result()],
\* instead of appended to
Collect_rebinds(i) ==
    /\ pc = "collect"
    /\ i \in Tasks \ Range(yielded)
    /\ future[i] \notin {Pending, Raised}
    /\ yielded' = Append(yielded, i)
    /\ rows' = <<future[i]>>
    /\ UNCHANGED <<args, pc, domains, nsub, queue, running, future, report, built, call, sub, globals>>

\* as_completed yields a finished future whose result() returns:
\* rows.append(f.result())
Collect(i) ==
    /\ pc = "collect"
    /\ i \in Tasks \ Range(yielded)
    /\ future[i] \notin {Pending, Raised}
    /\ yielded' = Append(yielded, i)
    /\ rows' = Append(rows, future[i])
    /\ UNCHANGED <<args, pc, domains, nsub, queue, running, future, report, built, call, sub, globals>>

\* as_completed yields a finished future whose result() re-raises the
\* exception of its task: the exception leaves the loop and the with block
CollectRaises(i) ==
    /\ pc = "collect"
    /\ i \in Tasks \ Range(yielded)
    /\ future[i] = Raised
    /\ yielded' = Append(yielded, i)
    /\ pc' = "unwinding"
    /\ UNCHANGED <<args, domains, nsub, queue, running, future, rows, report, built, call, sub, globals>>

\* the with block's exit, shutdown(wait=True), has joined the workers and
\* the exception ends main with a traceback
Abort ==
    /\ pc = "unwinding"
    /\ queue = << >> /\ running = {}
    /\ pc' = "aborted"
    /\ UNCHANGED <<args, domains, nsub, queue, running, future, yielded, rows, report, built, call, sub, globals>>

\* the loop has consumed every future; rows.sort(key=...)
Sort ==
    /\ pc = "collect"
    /\ Range(yielded) = Tasks
    /\ rows' = SortRows(rows)
    /\ pc' = "print"
    /\ UNCHANGED <<args, domains, nsub, queue, running, future, yielded, report, built, call, sub, globals>>

\* PrintReport with the build made only when no TRUSTED domain failed
PrintReport_buildIfTrustedPass ==
    /\ pc = "print"
    /\ report' = rows
    /\ pc' = IF args.buildExtension /\ \A k \in 1..Len(rows) : rows[k][1] = "TRUSTED" => rows[k][4] = "PASS"
               THEN "build" ELSE "done"
    /\ UNCHANGED <<args, domains, nsub, queue, running, future, yielded, rows, built, call, sub, globals>>

\* print(tabulate(rows, ...)); if args.buildExtension:
PrintReport ==
    /\ pc = "print"
    /\ report' = rows
    /\ pc' = IF args.buildExtension THEN "build" ELSE "done"
    /\ UNCHANGED <<args, domains, nsub, queue, running, future, yielded, rows, built, call, sub, globals>>

\* build_extension(...); zip_extension(...)
BuildExtension ==
    /\ pc = "build"
    /\ built' = TRUE
    /\ pc' = "done"
    /\ UNCHANGED <<args, domains, nsub, queue, running, future, yielded, rows, report, call, sub, globals>>

Next ==
    \/ Submit
    \/ StartCollecting
    \/ StartTask
    \/ \E i \in Tasks : TaskFetched(i)
    \/ \E i \in Tasks : FinishTask(i)
    \/ \E i \in Tasks : Collect(i)
    \/ \E i \in Tasks : CollectRaises(i)
    \/ Abort
    \/ Sort
    \/ PrintReport
    \/ BuildExtension

Spec == Init /\ [][Next]_vars

\* scheduling: the main thread and the pool's worker threads are operating
\* system threads, each of which keeps being scheduled; a worker that is
\* free takes the next work item; get_cert_cn and requests.get are given
\* timeouts, so each sub-probe ends
Fairness ==
    /\ WF_vars(Submit) /\ WF_vars(StartCollecting) /\ WF_vars(StartTask)
    /\ \A i \in 1..(NumTrusted + NumExtended) :
           /\ WF_vars(TaskFetched(i)) /\ WF_vars(FinishTask(i))
           /\ WF_vars(Collect(i)) /\ WF_vars(CollectRaises(i))
    /\ WF_vars(Abort) /\ WF_vars(Sort) /\ WF_vars(PrintReport) /\ WF_vars(BuildExtension)

FairSpec == Init /\ [][Next]_vars /\ Fairness

(* ------------------------------------------------------------------ *)
(* One call of probe, statement by statement                            *)
(* ------------------------------------------------------------------ *)
mainVars == <<args, pc, domains, nsub, queue, running, future, yielded, rows, report, built, sub, globals>>

\* a worker thread is about to run probe(d, timeout) for a domain of the
\* probe list
ProbeInit ==
    /\ globals = ModuleGlobals
    /\ args \in [workers : {1}, includeExtended : {TRUE}, buildExtension : {FALSE}]
    /\ pc = "submit"
    /\ domains = ProbeList(TRUE)
    /\ nsub = 0
    /\ queue = << >>
    /\ running = {}
    /\ future = [i \in 1..Len(domains) |-> Pending]
    /\ yielded = << >>
    /\ rows = << >>
    /\ report = NotPrinted
    /\ built = FALSE
    /\ sub = [i \in 1..Len(domains) |-> NotStarted]
    /\ \E i \in 1..Len(domains) : call = [NoCall EXCEPT !.pc = "get_cert_cn", !.domain = domains[i]]

\* cn = get_cert_cn(domain, timeout)
CallGetCertCn ==
    /\ call.pc = "get_cert_cn"
    /\ \E ev \in CertEvents :
           call' = [call EXCEPT !.ev = ev, !.cn = get_cert_cn(ev), !.pc = "scope"]
    /\ UNCHANGED mainVars

\* scope = ...; reason = ""
SetScope ==
    /\ call.pc = "scope"
    /\ call' = [call EXCEPT !.scope = ScopeOf(call.domain), !.reason = "", !.pc = "get"]
    /\ UNCHANGED mainVars

\* the try statement around requests.get ends with reason set
RequestHandled ==
    /\ call.pc = "get"
    /\ \E resp \in Responses :
           /\ RequestReason(resp) # Escapes
           /\ call' = [call EXCEPT !.resp = resp, !.reason = RequestReason(resp), !.pc = "return"]
    /\ UNCHANGED mainVars

\* requests.get raises an exception no except clause matches: it leaves probe
RequestEscapes ==
    /\ call.pc = "get"
    /\ \E resp \in Responses :
           /\ RequestReason(resp) = Escapes
           /\ call' = [call EXCEPT !.resp = resp, !.ret = Raised, !.pc = "raised"]
    /\ UNCHANGED mainVars

\* one of the three return statements
Return ==
    /\ call.pc = "return"
    /\ call' = [call EXCEPT !.ret = Outcome(call.scope, call.domain, call.cn, call.reason),
                            !.pc = "returned"]
    /\ UNCHANGED mainVars

ProbeNext ==
    \/ CallGetCertCn
    \/ SetScope
    \/ RequestHandled
    \/ RequestEscapes
    \/ Return

ProbeSpec == ProbeInit /\ [][ProbeNext]_vars

(* ------------------------------------------------------------------ *)
(* Properties                                                           *)
(* ------------------------------------------------------------------ *)
\* the call of probe has ended, by a return or by an exception
CallEnded == call.pc \in {"returned", "raised"}

\* C1: every row probe returns, whatever the TLS connection and the GET
\* request did, has PASS if and only if get_cert_cn returned an identity
\* and that identity is in PINNED_CNS.  (The rows of the report are the rows
\* probe returned.)
C1_PassIffPinned ==
    call.pc = "returned" =>
        (call.ret[4] = "PASS" <=> (call.cn # None /\ call.cn \in PINNED_CNS))

\* a pinned identity behind a subject that starts with another attribute
C1_Witness ==
    /\ call.pc = "returned"
    /\ call.cn = "www.interactivebrokers.com"
    /\ call.ret[4] = "PASS"

\* C2: the printed report has exactly one row for each submitted domain,
\* for every worker count and every order in which the tasks finish and
\* are collected.
C2_OneRowPerDomain ==
    report # NotPrinted =>
        /\ Len(report) = Len(domains)
        /\ \A i \in Tasks : Cardinality({k \in 1..Len(report) : report[k][2] = domains[i]}) = 1

\* more domains than workers, and the last submitted collected first
C2_Witness ==
    /\ report # NotPrinted
    /\ Len(report) = NumTrusted + NumExtended
    /\ args.workers < Len(domains)
    /\ yielded[1] = Len(domains)

\* C3: no exception of a probe task reaches main: the as_completed loop is
\* never left by an exception and main is never aborted.
C3_NoExceptionReachesMain == pc \notin {"unwinding", "aborted"}

\* C4: when get_cert_cn returned a pinned identity, the call of probe ends
\* with the row PASS / "certificate pinned", however the GET request ended.
C4_PinnedAlwaysPasses ==
    (CallEnded /\ call.cn \in PINNED_CNS) =>
        call.ret = <<call.scope, call.domain, call.cn, "PASS", "certificate pinned">>

\* C5: when get_cert_cn returned an identity that is not pinned and the try
\* statement ended with success or with a failure code, probe returns
\* FAIL / "untrusted cert: <identity>".
C5_UnpinnedFails ==
    (call.pc = "returned" /\ ~Falsy(call.cn) /\ call.cn \notin PINNED_CNS) =>
        call.ret = <<call.scope, call.domain, call.cn, "FAIL", "untrusted cert: " \o call.cn>>

\* an identity that is not pinned, and a GET that timed out
C5_Witness ==
    /\ call.pc = "returned"
    /\ call.cn = "some-other-cn.example"
    /\ call.resp.kind = "ReadTimeout"
    /\ call.reason = "timeout"
    /\ call.ret[5] = "untrusted cert: some-other-cn.example"

\* the failure codes the try statement of probe can leave in reason
FailureCodes ==
    {"no dns", "connection refused", "connection reset", "connection error",
     "timeout", "tls handshake failed"}

\* C6: a row for a domain without identity is NO_CERT / FAIL; its reason is
\* the failure code of the GET request when the request failed, and the
\* fallback text "dns/tls error" when the request succeeded.
C6_NoCertReason ==
    (call.pc = "returned" /\ Falsy(call.cn)) =>
        /\ call.ret[3] = "NO_CERT"
        /\ call.ret[4] = "FAIL"
        /\ call.resp.kind # "ok" => (call.ret[5] = call.reason /\ call.reason \in FailureCodes)
        /\ call.resp.kind = "ok" => call.ret[5] = "dns/tls error"

\* no name resolution for the TLS connection, the GET refused
C6_Witness ==
    /\ call.pc = "returned"
    /\ call.ev.kind = "gaierror"
    /\ call.resp.kind = "ConnectionError"
    /\ call.ret = <<call.scope, call.domain, "NO_CERT", "FAIL", "connection refused">>

\* C7: the printed report lists every TRUSTED row before every EXTENDED row
\* and, within a scope, the rows by ascending domain; it is the same
\* sequence, row k being the row of the k-th submitted domain, in whatever
\* order the futures were collected.
C7_ReportOrder ==
    report # NotPrinted =>
        /\ \A j, k \in 1..Len(report) :
               j < k => /\ ~(report[j][1] = "EXTENDED" /\ report[k][1] = "TRUSTED")
                        /\ report[j][1] = report[k][1] => StrLess(report[j][2], report[k][2])
        /\ report = future

\* the EXTENDED row collected first, the TRUSTED rows in reverse
C7_Witness ==
    /\ report # NotPrinted
    /\ Len(report) = NumTrusted + NumExtended
    /\ yielded[1] = Len(domains)
    /\ yielded[2] = 2
    /\ report[1][1] = "TRUSTED"
    /\ report[Len(report)][1] = "EXTENDED"

\* C8: for a GET request that failed with a ConnectionError, reason is
\* "no dns" when the text names a failed resolution, else "connection
\* refused" when it says refused, else "connection reset" when it says reset
\* by peer, else "connection error"; a failed resolution is never
\* "connection error".
C8_ConnectionPrecedence ==
    (call.pc \in {"return", "returned"} /\ call.resp.kind # "ok"
        /\ IsInstance(call.resp.kind, "ConnectionError")) =>
        LET msg == Lower(call.resp.msg)
            dns == Contains(N_failed_to_resolve, msg) \/ Contains(N_name_or_service_not_known, msg)
            refused == Contains(N_refused, msg)
            reset == Contains(N_reset_by_peer, msg)
        IN  /\ dns => call.reason = "no dns"
            /\ (~dns /\ refused) => call.reason = "connection refused"
            /\ (~dns /\ ~refused /\ reset) => call.reason = "connection reset"
            /\ (~dns /\ ~refused /\ ~reset) => call.reason = "connection error"
            /\ call.resp.msg \in ResolutionMessages => call.reason = "no dns"

\* a text that names a failed resolution and a refusal
C8_Witness ==
    /\ call.pc = "returned"
    /\ call.resp.kind = "ConnectionError"
    /\ call.resp.msg \in ResolutionMessages
    /\ Contains(N_refused, Lower(call.resp.msg))
    /\ call.reason = "no dns"

\* C9: never more than args.workers tasks are executing; every submitted
\* task that is not executing and has not finished is waiting in the queue.
C9_PoolBound ==
    /\ Cardinality(running) <= args.workers
    /\ \A i \in 1..nsub :
           (i \notin running /\ future[i] = Pending) => InList(i, queue)
    /\ \A i \in running : ~InList(i, queue) /\ future[i] = Pending

\* the pool is full and a task waits
C9_Witness ==
    /\ args.workers = MaxWorkers
    /\ Cardinality(running) = args.workers
    /\ queue # << >>

\* C10: a timeout ends only the sub-probe it occurs in.  After a timeout of
\* the TLS connection the GET request is made and the call of probe ends
\* with a row; after a timeout of the GET request the row carries the
\* identity get_cert_cn returned and PASS exactly when it is pinned.
C10_TimeoutsAreLocal ==
    /\ (CallEnded /\ call.ev.kind = "timeout") =>
           /\ call.resp # NoResponse
           /\ call.pc = "returned"
           /\ call.ret[3] = "NO_CERT"
    /\ (CallEnded /\ call.resp.kind \in {"ReadTimeout", "ConnectTimeout"}) =>
           /\ call.pc = "returned"
           /\ call.ret[3] = (IF Falsy(call.cn) THEN "NO_CERT" ELSE call.cn)
           /\ call.ret[4] = "PASS" <=> call.cn \in PINNED_CNS

\* the domains of the trusted TLDs and of the extended TLDs a run can probe
TrustedDomains == {DomainOf(TRUSTED_TLDS[i]) : i \in 1..Len(Take(TRUSTED_TLDS, NumTrusted))}
ExtendedDomains == {DomainOf(EXTENDED_TLDS[i]) : i \in 1..Len(Take(EXTENDED_TLDS, NumExtended))}

\* every row a task has returned, main has collected or the report shows
AllRows ==
    {future[i] : i \in {j \in Tasks : future[j] \notin {Pending, Raised}}}
    \cup Range(rows)
    \cup (IF report = NotPrinted THEN {} ELSE Range(report))

\* C11: without --includeExtended only the domains of the trusted TLDs are
\* submitted and every row is TRUSTED; with it the domains of the trusted
\* and of the extended TLDs are all submitted.  A row is TRUSTED exactly
\* when its domain is the domain of a trusted TLD.  Neither depends on the
\* worker count or on --buildExtension.
C11_FlagDecidesExtended ==
    /\ Range(domains) =
           IF args.includeExtended THEN TrustedDomains \cup ExtendedDomains ELSE TrustedDomains
    /\ pc # "submit" => {domains[i] : i \in 1..nsub} = Range(domains)
    /\ \A r \in AllRows :
           /\ r[2] \in Range(domains)
           /\ r[1] = "TRUSTED" <=> r[2] \in {DomainOf(TRUSTED_TLDS[i]) : i \in 1..Len(TRUSTED_TLDS)}
           /\ ~args.includeExtended => r[1] = "TRUSTED"

\* a report with the row of interactivebrokers.co.uk TRUSTED and an
\* EXTENDED row
C11_Witness ==
    /\ args.includeExtended
    /\ report # NotPrinted
    /\ \E k \in 1..Len(report) :
           report[k][1] = "TRUSTED" /\ report[k][2] = DomainOf(<<99,111,46,117,107>>)
    /\ \E k \in 1..Len(report) : report[k][1] = "EXTENDED" /\ report[k][2] \in ExtendedDomains

\* C12: for a domain without identity whose GET request fails, a timeout
\* of the request gives the reason "timeout" and a TLS failure of the
\* request gives "tls handshake failed"; neither is given one of the
\* reasons of the ConnectionError clause.
C12_TimeoutAndTlsReasons ==
    (call.pc = "returned" /\ Falsy(call.cn) /\ call.resp.kind \notin {"ok", "none"}) =>
        /\ IsInstance(call.resp.kind, "Timeout") => call.ret[5] = "timeout"
        /\ IsInstance(call.resp.kind, "SSLError") => call.ret[5] = "tls handshake failed"
        /\ (IsInstance(call.resp.kind, "Timeout") \/ IsInstance(call.resp.kind, "SSLError")) =>
               call.ret[5] \notin {"connection error", "connection refused",
                                   "connection reset", "no dns"}

\* how often r occurs in the sequence s
Count(r, s) == Cardinality({k \in 1..Len(s) : s[k] = r})

\* a task's future is set only when get_cert_cn has returned and the GET
\* request has ended, for a pinned identity as for any other; the collected
\* rows are the values of the yielded futures
C13_AfterBothSubProbes ==
    /\ \A i \in Tasks : future[i] # Pending => (sub[i].cn # Unbound /\ sub[i].get)
    /\ \A i \in Tasks : (future[i] \notin {Pending, Raised} /\ future[i][4] = "PASS") => sub[i].get
    /\ pc \in {"collect", "unwinding", "aborted"} =>
           \A k \in 1..Len(rows) : rows[k] = future[yielded[k]]

\* a step never sets a future that is set, never changes a collected row
\* other than by appending to rows or, in the sort, by permuting rows, and
\* never changes a printed report
C13_NeverChanged ==
    /\ \A i \in Tasks : future'[i] # future[i] => future[i] = Pending
    /\ IF pc = "collect" /\ pc' = "print"
         THEN /\ Len(rows') = Len(rows)
              /\ \A k \in 1..Len(rows) : Count(rows[k], rows') = Count(rows[k], rows)
         ELSE /\ Len(rows') >= Len(rows)
              /\ SubSeq(rows', 1, Len(rows)) = rows
    /\ report # NotPrinted => report' = report
    /\ report' # report => report' = rows

\* C13: the outcome of a domain is created once, when both sub-probes of
\* its task have ended, and is not changed afterwards; the sort only
\* permutes the collected rows.
C13_OutcomeLifecycle == []C13_AfterBothSubProbes /\ [][C13_NeverChanged]_vars

\* a printed report with a PASS row, the rows collected out of order
C13_Witness ==
    /\ report # NotPrinted
    /\ Len(report) = NumTrusted + NumExtended
    /\ yielded[1] = 2
    /\ report[2][4] = "PASS"
    /\ sub[2] = [cn |-> "ibkr.eu", get |-> TRUE]

\* a step of a probe task: a worker takes it off the queue, get_cert_cn
\* returns, or the task ends and sets its future
C14_TaskStep == running' # running \/ sub' # sub \/ future' # future

C14_Frame ==
    /\ globals' = globals /\ domains' = domains /\ args' = args
    /\ C14_TaskStep => rows' = rows /\ yielded' = yielded /\ report' = report
    /\ Cardinality({i \in Tasks : future'[i] # future[i]}) <= 1
    /\ \A i \in Tasks : future[i] # Pending => future'[i] = future[i]
    /\ rows' # rows =>
           \/ \E i \in Tasks : future[i] \notin {Pending, Raised} /\ rows' = Append(rows, future[i])
           \/ /\ pc = "collect" /\ pc' = "print" /\ Len(rows') = Len(rows)
              /\ \A k \in 1..Len(rows) : Count(rows[k], rows') = Count(rows[k], rows)

\* C14: no step of a probe task changes shared state: PINNED_CNS,
\* TRUSTED_TLDS and EXTENDED_TLDS are in every reachable state what the
\* module bound them to, the probe list and the arguments never change, a
\* step of a task changes neither rows nor the report and sets at most its
\* own future, once; rows changes only by the append of one finished
\* outcome (or by the sort of the complete list), so nothing already in it is
\* lost or overwritten while up to W tasks complete concurrently.
C14_SharedStateFrame == [](globals = ModuleGlobals) /\ [][C14_Frame]_vars

\* one outcome has been appended to rows while MaxWorkers other tasks are
\* running
C14_Witness ==
    /\ pc = "collect" /\ Len(rows) = 1
    /\ Cardinality(running) = MaxWorkers
    /\ \E i \in running : sub[i].cn # Unbound
    /\ globals = ModuleGlobals

\* C15: with every sub-probe ending and fair scheduling, every queued task
\* eventually runs, and eventually all N outcomes are collected and the
\* sorted report of them is printed.
C15_EveryTaskReported ==
    /\ \A i \in 1..(NumTrusted + NumExtended) : (i \in Range(queue)) ~> (i \in running)
    /\ <>(/\ Len(rows) = Len(domains)
          /\ report # NotPrinted /\ report = SortRows(rows))

\* every task has ended and its outcome is in the sorted, printed report
C16_AllReported ==
    /\ queue = << >> /\ running = {} /\ nsub = Len(domains)
    /\ \A i \in Tasks : future[i] # Pending
    /\ Range(yielded) = Tasks /\ Len(rows) = Len(domains)
    /\ report # NotPrinted /\ report = rows /\ rows = SortRows(rows)

\* C16: the build and zip step neither starts nor has run while a task is
\* queued or running: it comes only after every outcome is collected, sorted
\* and printed; and when main ends after the report, the step has run exactly
\* if buildExtension was given, whatever the verdicts of the report are.
C16_BuildAfterReport ==
    /\ (pc = "build" \/ built) => C16_AllReported /\ args.buildExtension
    /\ pc = "done" => C16_AllReported /\ built = args.buildExtension

\* the extension was built although a TRUSTED domain has the verdict FAIL
C16_Witness ==
    /\ built /\ pc = "done"
    /\ \E k \in 1..Len(report) : report[k][1] = "TRUSTED" /\ report[k][4] = "FAIL"

====
